---- MODULE Spec2Model ----
(***************************************************************************)
(* ai-code-reviewer: webhook ingestion -> BullMQ queue 'pr-reviews' ->     *)
(* worker (processReviewJob), over the PostgreSQL schema of schema.sql.    *)
(*                                                                         *)
(* The record store is modelled table by table with the constraints the    *)
(* schema declares; the queue is modelled with the options queue.js and    *)
(* worker.js pass to BullMQ (attempts, exponential backoff, concurrency).  *)
(***************************************************************************)
EXTENDS Integers, Sequences, FiniteSets, Bags, TLC

(***************************************************************************)
(* Bounds of the model                                                     *)
(***************************************************************************)
\* number of POST /webhook/github requests that arrive
MaxDeliveries == 2
\* number of calls of enqueueReview
MaxEnqueue == 2
\* number of deliveries of queue entries to the worker, all entries together
MaxDequeues == 4
\* number of calls of verifyGitHubSignature looked at together
MaxVerifyCalls == 2
\* number of statements run by hand against the record store
MaxStatements == 1
\* number of queue entries next to which these statements are run
MaxAdminEnqueue == 1
\* number of queue entries followed through their backoff delays
MaxTimedEnqueue == 1
\* number of deliveries followed next to a shutdown
MaxShutdownDequeues == 2

(***************************************************************************)
(* Program constants                                                       *)
(***************************************************************************)
\* queue.js: defaultJobOptions.attempts
Attempts == 3
\* queue.js: defaultJobOptions.backoff.delay (ms)
BackoffDelay == 1000
\* worker.js: new Worker(..., { concurrency: 2 })
Concurrency == 2
\* seed.sql: github_repo_id of the sample repository
SeedGithubRepoId == 123456789

\* SQL NULL in a text column / in a timestamp column
NullText == "NULL"
NullTime == <<>>

\* webhook.js: relevantActions
relevantActions == {"opened", "synchronize", "reopened"}

\* review_jobs.status CHECK constraint
JobStatuses == {"pending", "processing", "completed", "failed"}

\* inputs: the events GitHub (or test-webhook.js) sends
EventKinds == {"pull_request", "push"}
EventActions == relevantActions \cup {"closed"}
GitHubRepoIds == {SeedGithubRepoId, SeedGithubRepoId + 1}
PrNumbers == {42, 43}
\* error.message of a call that failed
ErrorMessage == "request failed"

(***************************************************************************)
(* utils/webhook.js: verifyGitHubSignature.  A string is modelled by its   *)
(* content and its length in bytes (what Buffer.from(s).length returns).   *)
(***************************************************************************)
\* a value that is not there: req.rawBody when express.json() read no JSON
\* body (its verify callback did not run)
Undefined == <<>>

\* process.env.GITHUB_WEBHOOK_SECRET, and another secret
WebhookSecret == "s1"
Secrets == {WebhookSecret, "s2"}

\* length of "sha256=" and of the hex form of a SHA-256 MAC
PrefixLen == 7
HexDigestLen == 64

Str(text, len) == [text |-> text, len |-> len]

\* hmac.update(payload).digest('hex'): injective in (payload, secret)
HexHmac(payload, secret) == <<payload, secret>>

\* utils/webhook.js 21-22: 'sha256=' + hex HMAC of the payload under secret
Digest(payload, secret) ==
    Str(<<"sha256=", HexHmac(payload, secret)>>, PrefixLen + HexDigestLen)

\* no X-Hub-Signature-256 header (or an empty one)
NoSignature == Str(<<"", HexHmac(Undefined, "")>>, 0)
\* test-webhook.js 28: 'sha256=invalid'
InvalidSignature == Str(<<"sha256=", HexHmac(Undefined, "invalid")>>, PrefixLen + 7)
\* a signature that lost its last character
Truncated(sig) == [sig EXCEPT !.len = @ - 1]

\* variant of the comparison that looks at the lengths only
timingSafeEqualLengthOnly(a, b) == IF a.len # b.len THEN "throws" ELSE "true"

\* crypto.timingSafeEqual(Buffer.from(a), Buffer.from(b)): throws a RangeError
\* when the byte lengths differ
timingSafeEqual(a, b) ==
    IF a.len # b.len THEN "throws"
    ELSE IF a = b THEN "true" ELSE "false"

\* utils/webhook.js 15-33.  createHmac/update run outside the try block:
\* hmac.update(undefined) throws a TypeError that leaves the function
verifyGitHubSignature(payload, signature, secret) ==
    IF signature.len = 0 THEN "false"
    ELSE IF payload = Undefined THEN "throws"
    ELSE LET compared == timingSafeEqual(signature, Digest(payload, secret))
         IN IF compared = "throws" THEN "false" ELSE compared

\* JSON text of a webhook body
RawBody(action, gh, num, title) == <<action, gh, num, title>>

Payload(signature, rawBody, event, action, gh, num, title) ==
    [signature |-> signature, rawBody |-> rawBody, event |-> event, action |-> action,
     gh |-> gh, num |-> num, title |-> title, author |-> "janedoe"]

\* a delivery signed with the configured secret, as GitHub sends it
SignedPayload(event, action, gh, num, title) ==
    Payload(Digest(RawBody(action, gh, num, title), WebhookSecret),
            RawBody(action, gh, num, title), event, action, gh, num, title)

\* the title a pull request carries when the event is sent: a synchronize
\* event follows an edit
TitleAt(action) == IF action = "synchronize" THEN "t2" ELSE "t1"

\* authentic pull_request events the handler acts on
InScopePayloads ==
    {SignedPayload("pull_request", a, gh, num, TitleAt(a)) :
        a \in relevantActions, gh \in GitHubRepoIds, num \in PrNumbers}

\* SQL NULL in a number column: what pg sends for a parameter that is undefined
NullId == 0

\* test-webhook.js 91-103, 119-131: authentic events whose body has only
\* pull_request.number, .title, .user.login and repository.full_name
\* (no repository.id, no pull_request.state)
TestScriptPayloads ==
    {SignedPayload("pull_request", a, NullId, 42, TitleAt(a)) : a \in {"opened", "synchronize"}}

\* deliveries that are not authentic: a bad signature on any event, no
\* signature, a signature under another secret, and requests without a JSON body
UnsignedPayloads ==
    {Payload(InvalidSignature, RawBody(a, SeedGithubRepoId, 42, "t1"),
             k, a, SeedGithubRepoId, 42, "t1") : k \in EventKinds, a \in EventActions}
    \cup {Payload(sig, RawBody("opened", SeedGithubRepoId, 42, "t1"),
                  "pull_request", "opened", SeedGithubRepoId, 42, "t1") :
             sig \in {NoSignature,
                      Digest(RawBody("opened", SeedGithubRepoId, 42, "t1"), "s2")}}
    \cup {Payload(sig, Undefined, "pull_request", "opened", SeedGithubRepoId, 42, "t1") :
             sig \in {NoSignature, InvalidSignature}}

\* deliveries the handler answers without reading the pull request
RejectedPayloads ==
    UnsignedPayloads
    \cup {SignedPayload("push", a, SeedGithubRepoId, 42, "t1") : a \in EventActions}
    \cup {SignedPayload("pull_request", "closed", SeedGithubRepoId, 42, "t1")}

Payloads == InScopePayloads \cup TestScriptPayloads \cup RejectedPayloads

\* authentic pull_request events whose body has no pull_request object
\* (number NullId)
MalformedPayloads ==
    {SignedPayload("pull_request", a, SeedGithubRepoId, NullId, "t1") : a \in {"opened", "closed"}}

VARIABLES
    repositories,   \* table repositories: set of rows
    pull_requests,  \* table pull_requests: set of rows
    review_jobs,    \* table review_jobs: set of rows
    reviews,        \* table reviews: bag of the rows' pr_id
    review_comments, \* table review_comments: bag of the pr_id of each row's review
    seqs,           \* BIGSERIAL sequences, per table: the last value handed out
    clock,          \* what NOW() returns
    queue,          \* BullMQ queue 'pr-reviews': sequence of entries, index = job.id
    inflight,       \* the worker's running processReviewJob calls, by entry id
    reqs,           \* POST /webhook/github requests, in arrival order
    proc            \* the Node process of the worker: "running", "exited" (exit
                    \* code -1), or where its shutdown handler stands

vars == <<repositories, pull_requests, review_jobs, reviews, review_comments, seqs, clock,
          queue, inflight, reqs, proc>>

dbVars == <<repositories, pull_requests, review_jobs, reviews, review_comments, seqs, clock>>

(***************************************************************************)
(* schema.sql: unique indexes (primary keys and UNIQUE constraints).       *)
(* review_jobs has a primary key on id and only NON-unique indexes on      *)
(* pr_id and status.                                                       *)
(***************************************************************************)
UniqueIndexes ==
    { <<"repositories", {"id"}>>, <<"repositories", {"github_repo_id"}>>,
      <<"pull_requests", {"id"}>>, <<"pull_requests", {"repo_id", "pr_number"}>>,
      <<"review_jobs", {"id"}>>, <<"reviews", {"id"}>> }

\* variant: a store that takes any column list as conflict target
HasArbiterIndexAnyColumns(table, cols) == \E ix \in UniqueIndexes : ix[1] = table

\* PostgreSQL: INSERT ... ON CONFLICT (cols) needs a unique index on exactly
\* those columns as arbiter; without one the statement is rejected
\* ("there is no unique or exclusion constraint matching the ON CONFLICT
\* specification") whatever the table holds.
HasArbiterIndex(table, cols) == <<table, cols>> \in UniqueIndexes

FreshDatabase ==
    /\ repositories = {} /\ pull_requests = {} /\ review_jobs = {}
    /\ reviews = EmptyBag
    /\ review_comments = EmptyBag
    /\ seqs = [t \in {"repositories", "pull_requests", "review_jobs"} |-> 0]

Init ==
    /\ FreshDatabase
    /\ clock = 1
    /\ queue = <<>>
    /\ inflight = <<>>
    /\ reqs = <<>>
    /\ proc = "running"

(***************************************************************************)
(* seed.js / seed.sql: sample rows, run against the freshly migrated       *)
(* database (the script's ids 1 and 2 are the first sequence values).      *)
(***************************************************************************)
RunSeed ==
    /\ FreshDatabase
    /\ repositories' = {[id |-> 1, github_repo_id |-> SeedGithubRepoId]}
    /\ pull_requests' =
          { [id |-> 1, repo_id |-> 1, pr_number |-> 42, title |-> "t1",
             author |-> "janedoe", status |-> "open"],
            [id |-> 2, repo_id |-> 1, pr_number |-> 43, title |-> "t2",
             author |-> "bobsmith", status |-> "open"] }
    /\ review_jobs' =
          { [id |-> 1, pr_id |-> 1, status |-> "completed", attempts |-> 1,
             error_message |-> NullText, completed_at |-> <<clock - 1>>],
            [id |-> 2, pr_id |-> 2, status |-> "pending", attempts |-> 0,
             error_message |-> NullText, completed_at |-> NullTime] }
    /\ reviews' = SetToBag({1})
    /\ review_comments' = [x \in {1} |-> 3]
    /\ seqs' = [repositories |-> 1, pull_requests |-> 2, review_jobs |-> 2]
    /\ UNCHANGED <<clock, queue, inflight, reqs, proc>>

(***************************************************************************)
(* POST /webhook/github                                                    *)
(***************************************************************************)
\* variants of the filter: one that lets closed pull requests through, one
\* that does not look at the event kind
InScopeWithClosed(event, action) ==
    event = "pull_request" /\ action \in relevantActions \cup {"closed"}

InScopeAnyEvent(event, action) == action \in relevantActions

\* webhook.js 43-62: the event/action filter
InScope(event, action) == event = "pull_request" /\ action \in relevantActions

\* status of a request that has not been answered
NoResponse == 0

\* what the handler makes of a request before its first await: the pc it
\* goes to and the responses it may send.  An error thrown out of the async
\* handler is answered by nobody under Express 4 (the promise is rejected)
\* and reaches the error middleware of index.js (500) under Express 5.
Classify(p) ==
    LET isValid == verifyGitHubSignature(p.rawBody, p.signature, WebhookSecret)
    IN IF isValid = "throws" THEN [pc |-> "done", responses |-> {NoResponse, 500}]
       ELSE IF isValid = "false" THEN [pc |-> "done", responses |-> {401}]
       ELSE IF p.event = "pull_request" /\ p.num = NullId
            THEN \* webhook.js 52-55: pull_request.number of undefined throws
                 [pc |-> "done", responses |-> {NoResponse, 500}]
       ELSE IF ~InScope(p.event, p.action) THEN [pc |-> "done", responses |-> {200}]
       ELSE [pc |-> "repo", responses |-> {NoResponse}]

\* webhook.js 23-62: the synchronous part of the handler, up to the first await
Receive(payloads, max) ==
    /\ Len(reqs) < max
    /\ \E p \in payloads : \E st \in Classify(p).responses :
          reqs' = Append(reqs,
                 p @@ [state |-> IF p.action = "closed" THEN "closed" ELSE "open",
                       repoId |-> 0, prId |-> 0, pc |-> Classify(p).pc, status |-> st])
    /\ UNCHANGED <<dbVars, queue, inflight, proc>>

\* variant of the catch block that acknowledges the delivery
RespondAccepted(i) == reqs' = [reqs EXCEPT ![i].pc = "done", ![i].status = 200]

\* webhook.js 127-130: catch -> 500
Respond500(i) == reqs' = [reqs EXCEPT ![i].pc = "done", ![i].status = 500]

\* webhook.js 72-85: upsert of the repository row, RETURNING id
UpsertRepository(i) ==
    /\ reqs[i].pc = "repo"
    /\ \/ \* the statement runs
          LET old == {r \in repositories : r.github_repo_id = reqs[i].gh}
              newId == seqs["repositories"] + 1
          IN /\ seqs' = [seqs EXCEPT !["repositories"] = newId]
             /\ IF reqs[i].gh = NullId
                THEN \* github_repo_id BIGINT NOT NULL (schema.sql 38)
                     /\ repositories' = repositories
                     /\ Respond500(i)
                ELSE IF old = {}
                THEN /\ repositories' = repositories \cup
                            {[id |-> newId, github_repo_id |-> reqs[i].gh]}
                     /\ reqs' = [reqs EXCEPT ![i].pc = "pr", ![i].repoId = newId]
                ELSE /\ repositories' = repositories
                     /\ reqs' = [reqs EXCEPT ![i].pc = "pr",
                                             ![i].repoId = (CHOOSE r \in old : TRUE).id]
             /\ UNCHANGED <<pull_requests, review_jobs, reviews, clock, review_comments>>
       \/ \* the record store is unreachable
          /\ Respond500(i)
          /\ UNCHANGED dbVars
    /\ UNCHANGED <<queue, inflight, proc>>

\* variant: an INSERT that finds no conflicting row, as without the constraint
PullRequestConflictsNone(repoId, num) == {}

\* schema.sql 83-84, webhook.js 90: the rows ON CONFLICT (repo_id, pr_number)
\* finds, through the index of unique_pr_per_repo
PullRequestConflicts(repoId, num) ==
    {p \in pull_requests : p.repo_id = repoId /\ p.pr_number = num}

\* webhook.js 88-105: upsert of the pull request row, RETURNING id
UpsertPullRequest(i) ==
    /\ reqs[i].pc = "pr"
    /\ \/ LET q == reqs[i]
              old == PullRequestConflicts(q.repoId, q.num)
              newId == seqs["pull_requests"] + 1
          IN /\ seqs' = [seqs EXCEPT !["pull_requests"] = newId]
             /\ IF old = {}
                THEN /\ pull_requests' = pull_requests \cup
                            {[id |-> newId, repo_id |-> q.repoId, pr_number |-> q.num,
                              title |-> q.title, author |-> q.author, status |-> q.state]}
                     /\ reqs' = [reqs EXCEPT ![i].pc = "job", ![i].prId = newId]
                ELSE LET p == CHOOSE p \in old : TRUE
                     IN /\ pull_requests' = (pull_requests \ {p}) \cup
                               {[p EXCEPT !.title = q.title, !.status = q.state]}
                        /\ reqs' = [reqs EXCEPT ![i].pc = "job", ![i].prId = p.id]
             /\ UNCHANGED <<repositories, review_jobs, reviews, clock, review_comments>>
       \/ /\ Respond500(i)
          /\ UNCHANGED dbVars
    /\ UNCHANGED <<queue, inflight, proc>>

\* webhook.js 107-114 against schema.sql 98-123:
\*   INSERT INTO review_jobs (pr_id, status, attempts) VALUES ($1, 'pending', 0)
\*   ON CONFLICT (pr_id) DO UPDATE SET status = 'pending', updated_at = NOW()
\* PostgreSQL accepts the statement only with a unique index on review_jobs(pr_id)
JobUpsertAccepted == HasArbiterIndex("review_jobs", {"pr_id"})

\* the rows the accepted statement leaves in review_jobs
UpsertJobPending(prId) ==
    IF \E j \in review_jobs : j.pr_id = prId
    THEN {IF j.pr_id = prId THEN [j EXCEPT !.status = "pending"] ELSE j : j \in review_jobs}
    ELSE review_jobs \cup
            {[id |-> seqs["review_jobs"] + 1, pr_id |-> prId, status |-> "pending",
              attempts |-> 0, error_message |-> NullText, completed_at |-> NullTime]}

(***************************************************************************)
(* queue.js: the BullMQ queue 'pr-reviews'                                 *)
(***************************************************************************)
\* queue.js 60-65: exponential backoff, delay * 2^(attemptsMade - 1)
RECURSIVE Pow2(_)
Pow2(n) == IF n = 0 THEN 1 ELSE 2 * Pow2(n - 1)

\* variant: backoff type 'fixed'
BackoffFixed(attemptsMade) == BackoffDelay

Backoff(attemptsMade) == BackoffDelay * Pow2(attemptsMade - 1)

\* queue.js 96: reviewQueue.add(JOB_TYPES.REVIEW_PR, data), no jobId option:
\* BullMQ gives the entry the next id of the queue's counter
QueueAdd(data) ==
    Append(queue, [name |-> "review-pr", data |-> data, state |-> "waiting",
                   attemptsMade |-> 0, delay |-> 0])

\* webhook.js 118-123: the data the caller of enqueueReview builds from a
\* pull_requests row
JobData(p) == [prId |-> p.id, repoId |-> p.repo_id, prNumber |-> p.pr_number]

\* queue.js 92-108: enqueueReview(data)
EnqueueReview ==
    /\ Len(queue) < MaxEnqueue
    /\ \E p \in pull_requests : queue' = QueueAdd(JobData(p))
    /\ UNCHANGED <<dbVars, inflight, reqs, proc>>

\* webhook.js 107-136: the job upsert, then enqueueReview and the 200 response;
\* the error of a rejected statement is caught and answered 500 (127-130).
\* enqueueReview (queue.js 92-108) throws when reviewQueue.add fails and also
\* when getQueueStats fails after the entry was added.
UpsertJob(i) ==
    /\ reqs[i].pc = "job"
    /\ IF ~JobUpsertAccepted
       THEN /\ Respond500(i)
            /\ UNCHANGED <<dbVars, queue>>
       ELSE /\ review_jobs' = UpsertJobPending(reqs[i].prId)
            /\ seqs' = [seqs EXCEPT !["review_jobs"] = @ + 1]
            /\ UNCHANGED <<repositories, pull_requests, reviews, clock, review_comments>>
            /\ \/ /\ queue' = QueueAdd([prId |-> reqs[i].prId, repoId |-> reqs[i].repoId,
                                        prNumber |-> reqs[i].num])
                  /\ \/ reqs' = [reqs EXCEPT ![i].pc = "done", ![i].status = 200]
                     \/ Respond500(i)
               \/ /\ queue' = queue
                  /\ Respond500(i)
    /\ UNCHANGED <<inflight, proc>>

(***************************************************************************)
(* worker.js: the worker and processReviewJob                              *)
(***************************************************************************)
PrIdOf(e) == queue[e].data.prId

\* the processor callbacks run while the process lives and the worker has not
\* finished closing (worker.js 146-148: close() lets running jobs finish)
WorkerAlive == proc \in {"running", "closing"}

Running == DOMAIN inflight

Step(e, pc) == inflight' = [inflight EXCEPT ![e].pc = pc]

\* variant: a call that threw is made again inside the same delivery
ToCatchRetrying(e) == inflight' = [inflight EXCEPT ![e].pc = "fetch"]

\* worker.js 95: a call threw; the catch block holds its error
ToCatch(e) == inflight' = [inflight EXCEPT ![e] = [pc |-> "catch", err |-> ErrorMessage]]

Finished(e) == inflight' = [x \in Running \ {e} |-> inflight[x]]

\* worker.js 125-128: how many entries the worker processes at a time
WorkerHasFreeSlot == Cardinality(Running) < Concurrency

\* deliveries of entry e to the worker so far, the running one included
Deliveries(e) ==
    queue[e].attemptsMade + (IF queue[e].state \in {"active", "completed"} THEN 1 ELSE 0)

RECURSIVE TotalDeliveries(_)
TotalDeliveries(n) == IF n = 0 THEN 0 ELSE Deliveries(n) + TotalDeliveries(n - 1)

\* worker.js 115-129: the worker takes a waiting entry when it has a free slot
Take(e) ==
    /\ proc = "running"
    /\ WorkerHasFreeSlot
    /\ queue[e].state = "waiting"
    /\ queue' = [queue EXCEPT ![e].state = "active"]
    /\ inflight' = [x \in Running \cup {e} |->
                       IF x = e THEN [pc |-> "processing", err |-> NullText] ELSE inflight[x]]
    /\ UNCHANGED <<dbVars, reqs, proc>>

\* Take, for a bounded number of deliveries
Dequeue(e) ==
    /\ TotalDeliveries(Len(queue)) < MaxDequeues
    /\ Take(e)

SetProcessing(j) == [j EXCEPT !.status = "processing"]

\* worker.js 31-38: UPDATE review_jobs SET status = 'processing'
MarkProcessing(e) ==
    /\ WorkerAlive
    /\ inflight[e].pc = "processing"
    /\ \/ /\ review_jobs' = {IF j.pr_id = PrIdOf(e) THEN SetProcessing(j) ELSE j : j \in review_jobs}
          /\ Step(e, "fetch")
          /\ UNCHANGED <<repositories, pull_requests, reviews, seqs, clock, review_comments>>
       \/ /\ ToCatch(e)
          /\ UNCHANGED dbVars
    /\ UNCHANGED <<queue, reqs, proc>>

\* variant: the processor goes from the fetch straight to the INSERT
FetchPRDataThenStore(e) ==
    /\ WorkerAlive
    /\ inflight[e].pc = "fetch"
    /\ \/ Step(e, "store")
       \/ ToCatch(e)
    /\ UNCHANGED <<dbVars, queue, reqs, proc>>

\* worker.js 46-48: fetchPRData
FetchPRData(e) ==
    /\ WorkerAlive
    /\ inflight[e].pc = "fetch"
    /\ \/ Step(e, "analyze")
       \/ ToCatch(e)
    /\ UNCHANGED <<dbVars, queue, reqs, proc>>

\* worker.js 56-58: reviewCodeWithAI
ReviewCodeWithAI(e) ==
    /\ WorkerAlive
    /\ inflight[e].pc = "analyze"
    /\ \/ Step(e, "store")
       \/ ToCatch(e)
    /\ UNCHANGED <<dbVars, queue, reqs, proc>>

\* worker.js 64-74: INSERT INTO reviews (pr_id, ...) RETURNING id
\* (fk_pr_review: the pull request row must exist)
StoreReview(e) ==
    /\ WorkerAlive
    /\ inflight[e].pc = "store"
    /\ \/ /\ \E p \in pull_requests : p.id = PrIdOf(e)
          /\ reviews' = reviews (+) SetToBag({PrIdOf(e)})
          /\ Step(e, "post")
          /\ UNCHANGED <<repositories, pull_requests, review_jobs, seqs, clock, review_comments>>
       \/ /\ ToCatch(e)
          /\ UNCHANGED dbVars
    /\ UNCHANGED <<queue, reqs, proc>>

\* worker.js 76-80: formatReviewComment, postReviewComment
PostReviewComment(e) ==
    /\ WorkerAlive
    /\ inflight[e].pc = "post"
    /\ \/ Step(e, "complete")
       \/ ToCatch(e)
    /\ UNCHANGED <<dbVars, queue, reqs, proc>>

\* variants of the completed update: one that also restarts the retry counter,
\* one that leaves the completion time unset
SetCompletedResetAttempts(j) ==
    [j EXCEPT !.status = "completed", !.completed_at = <<clock>>, !.attempts = 0]

SetCompletedNoTimestamp(j) == [j EXCEPT !.status = "completed"]

SetCompleted(j) == [j EXCEPT !.status = "completed", !.completed_at = <<clock>>]

\* worker.js 82-93: UPDATE review_jobs SET status = 'completed',
\* completed_at = NOW(); return { success: true }
MarkCompleted(e) ==
    /\ WorkerAlive
    /\ inflight[e].pc = "complete"
    /\ \/ /\ review_jobs' = {IF j.pr_id = PrIdOf(e) THEN SetCompleted(j) ELSE j : j \in review_jobs}
          /\ clock' = clock + 1
          /\ Step(e, "return")
          /\ UNCHANGED <<repositories, pull_requests, reviews, seqs, review_comments>>
       \/ /\ ToCatch(e)
          /\ UNCHANGED dbVars
    /\ UNCHANGED <<queue, reqs, proc>>

\* worker.js 117-121: the processor returns; BullMQ moves the entry to completed
Ack(e) ==
    /\ WorkerAlive
    /\ inflight[e].pc = "return"
    /\ queue' = [queue EXCEPT ![e].state = "completed"]
    /\ Finished(e)
    /\ UNCHANGED <<dbVars, reqs, proc>>

\* variants of the failed update: one that also stamps the completion time,
\* one that sends the Job back to pending, one that drops the error detail
SetFailedStampsCompletion(j, msg) ==
    [j EXCEPT !.status = "failed", !.error_message = msg, !.completed_at = <<clock>>]

SetFailedBackToPending(j, msg) ==
    [j EXCEPT !.status = "pending", !.error_message = msg]

SetFailedNoDetail(j, msg) == [j EXCEPT !.status = "failed"]

SetFailed(j, msg) == [j EXCEPT !.status = "failed", !.error_message = msg]

\* variant: a catch block that swallows the error of its own UPDATE and
\* lets the processor return
MarkFailedSwallowing(e) ==
    /\ WorkerAlive
    /\ inflight[e].pc = "catch"
    /\ \/ /\ review_jobs' = {IF j.pr_id = PrIdOf(e) THEN SetFailed(j, inflight[e].err) ELSE j
                                : j \in review_jobs}
          /\ Step(e, "throw")
          /\ UNCHANGED <<repositories, pull_requests, reviews, seqs, clock, review_comments>>
       \/ /\ inflight' = [inflight EXCEPT ![e] = [pc |-> "return", err |-> ErrorMessage]]
          /\ UNCHANGED dbVars
    /\ UNCHANGED <<queue, reqs, proc>>

\* worker.js 95-106: catch: UPDATE review_jobs SET status = 'failed',
\* error_message = $1; if this UPDATE throws, its error leaves the function
MarkFailed(e) ==
    /\ WorkerAlive
    /\ inflight[e].pc = "catch"
    /\ \/ /\ review_jobs' = {IF j.pr_id = PrIdOf(e) THEN SetFailed(j, inflight[e].err) ELSE j
                                : j \in review_jobs}
          /\ Step(e, "throw")
          /\ UNCHANGED <<repositories, pull_requests, reviews, seqs, clock, review_comments>>
       \/ /\ inflight' = [inflight EXCEPT ![e] = [pc |-> "throw", err |-> ErrorMessage]]
          /\ UNCHANGED dbVars
    /\ UNCHANGED <<queue, reqs, proc>>

\* queue.js 60-65: what BullMQ does with an entry whose processor threw
AfterFailure(entry) ==
    LET made == entry.attemptsMade + 1
    IN IF made < Attempts
       THEN [entry EXCEPT !.attemptsMade = made, !.state = "delayed", !.delay = Backoff(made)]
       ELSE [entry EXCEPT !.attemptsMade = made, !.state = "failed", !.delay = 0]

\* worker.js 108: throw error; BullMQ retries with backoff or fails the entry
Fail(e) ==
    /\ WorkerAlive
    /\ inflight[e].pc = "throw"
    /\ queue' = [queue EXCEPT ![e] = AfterFailure(@)]
    /\ Finished(e)
    /\ UNCHANGED <<dbVars, reqs, proc>>

\* BullMQ: a delayed entry goes back to waiting once its backoff delay is over
Promote(e) ==
    /\ proc = "running"
    /\ queue[e].state = "delayed"
    /\ queue' = [queue EXCEPT ![e].state = "waiting", ![e].delay = 0]
    /\ UNCHANGED <<dbVars, inflight, reqs, proc>>

\* time passes by one unit of 1000 ms: the delay that is left of every delayed
\* entry goes down by it
Tick ==
    /\ \E e \in 1..Len(queue) : queue[e].state = "delayed" /\ queue[e].delay > 0
    /\ queue' = [e \in 1..Len(queue) |->
                    IF queue[e].state = "delayed" /\ queue[e].delay > 0
                    THEN [queue[e] EXCEPT !.delay = @ - BackoffDelay]
                    ELSE queue[e]]
    /\ UNCHANGED <<dbVars, inflight, reqs, proc>>

\* queue.js 62-65: BullMQ moves a delayed entry back to waiting when its
\* delay has run out
PromoteDue(e) ==
    /\ queue[e].delay = 0
    /\ Promote(e)

\* config/database.js (github.js 149-152): pool.on('error', ...) calls
\* process.exit(-1).  pg emits the event when an idle client of the pool loses
\* its connection; the pool holds idle clients once a query of a delivery has
\* run.  The calls that were running are cut off where they stand and their
\* entries stay active in the queue.
PoolError ==
    /\ WorkerAlive
    /\ \E e \in Running : inflight[e].pc # "processing"
    /\ proc' = "exited"
    /\ UNCHANGED <<dbVars, queue, inflight, reqs>>

\* variant: the retention sweep also deletes the Job rows of the entry
RetentionDroppingJobs(e) ==
    /\ queue[e].state \in {"completed", "failed"}
    /\ queue' = [queue EXCEPT ![e].state = "removed"]
    /\ review_jobs' = {j \in review_jobs : j.pr_id # PrIdOf(e)}
    /\ UNCHANGED <<repositories, pull_requests, reviews, review_comments, seqs, clock,
                   inflight, reqs, proc>>

\* queue.js 66-72: removeOnComplete (age 24 h, count 100) and removeOnFail
\* (age 7 days): BullMQ deletes finished entries that are past these limits
Retention(e) ==
    /\ queue[e].state \in {"completed", "failed"}
    /\ queue' = [queue EXCEPT ![e].state = "removed"]
    /\ UNCHANGED <<dbVars, inflight, reqs, proc>>

\* worker.js 146-147, 153-154: SIGTERM or SIGINT arrives; the handler calls
\* worker.close(), after which the worker fetches no further entry
Signal ==
    /\ proc = "running"
    /\ proc' = "closing"
    /\ UNCHANGED <<dbVars, queue, inflight, reqs>>

\* variant: close(true), which does not wait for the running jobs
CloseWorkerForce ==
    /\ proc = "closing"
    /\ proc' = "closed"
    /\ UNCHANGED <<dbVars, queue, inflight, reqs>>

\* worker.js 148, 155: await worker.close() resolves once no job is running
CloseWorker ==
    /\ proc = "closing"
    /\ Running = {}
    /\ proc' = "closed"
    /\ UNCHANGED <<dbVars, queue, inflight, reqs>>

\* worker.js 149, 156: await pool.end()
EndPool ==
    /\ proc = "closed"
    /\ proc' = "ended"
    /\ UNCHANGED <<dbVars, queue, inflight, reqs>>

\* worker.js 150, 157: process.exit(0)
Exit ==
    /\ proc = "ended"
    /\ proc' = "stopped"
    /\ UNCHANGED <<dbVars, queue, inflight, reqs>>

\* variant of the CHECK constraint that lets every value through
JobStatusAcceptedAny(status) == TRUE

\* schema.sql 104-107: CHECK (status IN ('pending', 'processing',
\* 'completed', 'failed'))
JobStatusAccepted(status) == status \in JobStatuses

\* the status values a statement tries to write
StatusInputs == {"pending", "invalid_status"}

\* test-queries.js 63-72: INSERT INTO review_jobs (pr_id, status) VALUES
\* (1, <status>), its outcome logged.  The id default is taken from the
\* sequence before the constraints (CHECK, fk_pr_job) are looked at.
InsertJob(prId, status) ==
    /\ Len(reqs) < MaxStatements
    /\ LET newId == seqs["review_jobs"] + 1
           accepted == /\ JobStatusAccepted(status)
                       /\ \E p \in pull_requests : p.id = prId
       IN /\ seqs' = [seqs EXCEPT !["review_jobs"] = newId]
          /\ review_jobs' =
                IF accepted
                THEN review_jobs \cup
                        {[id |-> newId, pr_id |-> prId, status |-> status, attempts |-> 0,
                          error_message |-> NullText, completed_at |-> NullTime]}
                ELSE review_jobs
          /\ reqs' = Append(reqs, [pr_id |-> prId, status |-> status,
                                   result |-> IF accepted THEN "inserted" ELSE "error"])
    /\ UNCHANGED <<repositories, pull_requests, reviews, review_comments, clock,
                   queue, inflight, proc>>

\* variant: fk_pr_job without ON DELETE CASCADE and not enforced
DeleteRepositoryKeepingJobs(id) ==
    /\ \E r \in repositories : r.id = id
    /\ LET gone == {p.id : p \in {p \in pull_requests : p.repo_id = id}}
       IN /\ repositories' = {r \in repositories : r.id # id}
          /\ pull_requests' = {p \in pull_requests : p.repo_id # id}
          /\ review_jobs' = review_jobs
          /\ reviews' = [x \in BagToSet(reviews) \ gone |-> reviews[x]]
          /\ review_comments' =
                [x \in BagToSet(review_comments) \ gone |-> review_comments[x]]
    /\ UNCHANGED <<seqs, clock, queue, inflight, reqs, proc>>

\* test-queries.js 96: DELETE FROM repositories WHERE id = 1, with the
\* ON DELETE CASCADE of fk_repo, fk_pr_job, fk_pr_review and fk_review_comment
\* (schema.sql 78-81, 119-122, 151-154, 194-197)
DeleteRepository(id) ==
    /\ \E r \in repositories : r.id = id
    /\ LET gone == {p.id : p \in {p \in pull_requests : p.repo_id = id}}
       IN /\ repositories' = {r \in repositories : r.id # id}
          /\ pull_requests' = {p \in pull_requests : p.repo_id # id}
          /\ review_jobs' = {j \in review_jobs : j.pr_id \notin gone}
          /\ reviews' = [x \in BagToSet(reviews) \ gone |-> reviews[x]]
          /\ review_comments' =
                [x \in BagToSet(review_comments) \ gone |-> review_comments[x]]
    /\ UNCHANGED <<seqs, clock, queue, inflight, reqs, proc>>

Handler ==
    \/ \E i \in 1..Len(reqs) : UpsertRepository(i)
    \/ \E i \in 1..Len(reqs) : UpsertPullRequest(i)
    \/ \E i \in 1..Len(reqs) : UpsertJob(i)

Worker ==
    \/ \E e \in 1..Len(queue) : Dequeue(e)
    \/ \E e \in Running : MarkProcessing(e)
    \/ \E e \in Running : FetchPRData(e)
    \/ \E e \in Running : ReviewCodeWithAI(e)
    \/ \E e \in Running : StoreReview(e)
    \/ \E e \in Running : PostReviewComment(e)
    \/ \E e \in Running : MarkCompleted(e)
    \/ \E e \in Running : Ack(e)
    \/ \E e \in Running : MarkFailed(e)
    \/ \E e \in Running : Fail(e)
    \/ \E e \in 1..Len(queue) : Promote(e)

\* the steps of the deliveries that are running
Process ==
    \/ \E e \in Running : MarkProcessing(e)
    \/ \E e \in Running : FetchPRData(e)
    \/ \E e \in Running : ReviewCodeWithAI(e)
    \/ \E e \in Running : StoreReview(e)
    \/ \E e \in Running : PostReviewComment(e)
    \/ \E e \in Running : MarkCompleted(e)
    \/ \E e \in Running : Ack(e)
    \/ \E e \in Running : MarkFailed(e)
    \/ \E e \in Running : Fail(e)

\* the steps of the deliveries, every waiting entry being taken
Deliver ==
    \/ \E e \in 1..Len(queue) : Take(e)
    \/ Process

\* queue and worker over the seeded record store
NextWorker ==
    \/ RunSeed
    \/ EnqueueReview
    \/ Worker
    \/ PoolError

SpecWorker == Init /\ [][NextWorker]_vars

\* queue and worker with the time of the backoff delays
NextBackoff ==
    \/ RunSeed
    \/ (Len(queue) < MaxTimedEnqueue /\ EnqueueReview)
    \/ Deliver
    \/ \E e \in 1..Len(queue) : PromoteDue(e)
    \/ Tick

SpecBackoff == Init /\ [][NextBackoff]_vars

\* the same with a worker that keeps running: the BullMQ worker loop and the
\* Node event loop run every step that stays possible, and time passes
SpecBackoffFair ==
    /\ SpecBackoff
    /\ WF_vars(Deliver)
    /\ WF_vars(\E e \in 1..Len(queue) : PromoteDue(e))
    /\ WF_vars(Tick)

\* queue and worker with the shutdown handlers of worker.js 145-158
NextShutdown ==
    \/ RunSeed
    \/ EnqueueReview
    \/ \E e \in 1..Len(queue) :
          TotalDeliveries(Len(queue)) < MaxShutdownDequeues /\ Take(e)
    \/ Process
    \/ \E e \in 1..Len(queue) : Promote(e)
    \/ PoolError
    \/ Signal
    \/ CloseWorker
    \/ EndPool
    \/ Exit

SpecShutdown == Init /\ [][NextShutdown]_vars

\* queue and worker with the retention settings of the queue
NextQueue ==
    \/ RunSeed
    \/ EnqueueReview
    \/ Worker
    \/ \E e \in 1..Len(queue) : Retention(e)

SpecQueue == Init /\ [][NextQueue]_vars

\* queue and worker next to statements run by hand against the record store
NextAdmin ==
    \/ RunSeed
    \/ (Len(queue) < MaxAdminEnqueue /\ EnqueueReview)
    \/ Worker
    \/ \E status \in StatusInputs : InsertJob(1, status)
    \/ DeleteRepository(1)

SpecAdmin == Init /\ [][NextAdmin]_vars

\* ingestion on its own, over every kind of delivery
NextIngest ==
    \/ RunSeed
    \/ Receive(Payloads, MaxDeliveries)
    \/ Handler

SpecIngest == Init /\ [][NextIngest]_vars

\* the same with request bodies of any shape
NextIngestAnyBody ==
    \/ RunSeed
    \/ Receive(Payloads \cup MalformedPayloads, MaxDeliveries)
    \/ Handler

SpecIngestAnyBody == Init /\ [][NextIngestAnyBody]_vars

(***************************************************************************)
(* verifyGitHubSignature on its own: bodies, signatures and secrets a      *)
(* caller may pass; reqs holds the calls made, each with what it returned  *)
(***************************************************************************)
VerifyBodies ==
    {RawBody("opened", SeedGithubRepoId, 42, t) : t \in {"t1", "t2"}}

VerifySignatures ==
    {NoSignature, InvalidSignature}
    \cup {Digest(b, sec) : b \in VerifyBodies, sec \in Secrets}
    \cup {Truncated(Digest(b, WebhookSecret)) : b \in VerifyBodies}

VerifyCall ==
    /\ Len(reqs) < MaxVerifyCalls
    /\ \E payload \in VerifyBodies \cup {Undefined}, signature \in VerifySignatures,
          secret \in Secrets :
          reqs' = Append(reqs, [payload |-> payload, signature |-> signature,
                                secret |-> secret,
                                result |-> verifyGitHubSignature(payload, signature, secret)])
    /\ UNCHANGED <<dbVars, queue, inflight, proc>>

NextVerify == VerifyCall

SpecVerify == Init /\ [][NextVerify]_vars
(***************************************************************************)
(* Properties                                                              *)
(***************************************************************************)
JobsOfPr(prId) == {j \in review_jobs : j.pr_id = prId}

SamePayload(a, b) ==
    /\ a.signature = b.signature /\ a.rawBody = b.rawBody
    /\ a.event = b.event /\ a.action = b.action
    /\ a.gh = b.gh /\ a.num = b.num /\ a.title = b.title /\ a.author = b.author

\* the handler of request i ran its review_jobs statement and has answered
RecordedJob(i) == reqs[i].pc = "done" /\ reqs[i].prId # 0

\* C1: once the identical in-scope event has been delivered twice and both
\* requests have run the review_jobs upsert and answered, review_jobs holds
\* exactly one row for that pull request.
C1_RedeliveryOneJob ==
    \A i, k \in 1..Len(reqs) :
        (i < k /\ SamePayload(reqs[i], reqs[k]) /\ RecordedJob(i) /\ RecordedJob(k))
            => Cardinality(JobsOfPr(reqs[k].prId)) = 1

\* a queue entry that is still owed a delivery
Owed(e) == queue[e].state \in {"waiting", "delayed", "active"}

\* C2: at every moment at most one queue entry per pull request is waiting,
\* delayed or active.
C2_OneOwedEntryPerPr ==
    \A e1, e2 \in 1..Len(queue) :
        (e1 # e2 /\ PrIdOf(e1) = PrIdOf(e2)) => ~(Owed(e1) /\ Owed(e2))

\* C3: no two running processReviewJob calls work on the same prId.
C3_OneExecutionPerPr ==
    \A e1, e2 \in Running : e1 # e2 => PrIdOf(e1) # PrIdOf(e2)

AllJobsFailed(prId) ==
    JobsOfPr(prId) # {} /\ \A j \in JobsOfPr(prId) : j.status = "failed"

\* no entry for the pull request of e was added after e
NoLaterEntry(e) == \A x \in 1..Len(queue) : x > e => PrIdOf(x) # PrIdOf(e)

\* C4: an entry is delivered at most 3 times and a dead-lettered entry stays
\* dead-lettered; once an entry is dead-lettered and its Job reads failed, the
\* Job stays failed as long as no later event for that pull request arrives.
C4_ExhaustedStaysFailed ==
    [][\A e \in 1..Len(queue) :
          /\ Deliveries(e) <= Attempts
          /\ queue[e].state = "failed" => queue'[e].state = "failed"
          /\ (queue[e].state = "failed" /\ AllJobsFailed(PrIdOf(e))
                /\ NoLaterEntry(e) /\ NoLaterEntry(e)')
               => AllJobsFailed(PrIdOf(e))']_vars

\* the worker's UPDATE ... SET status = 'processing' of a delivery of e ran
StartedDelivery(e) ==
    /\ e \in Running /\ inflight[e].pc = "processing"
    /\ e \in DOMAIN inflight' /\ inflight'[e].pc = "fetch"

\* C5: every delivery of an entry that enters the Job at processing adds one
\* to the attempts of the Job.
C5_DeliveryIncrementsAttempts ==
    [][\A e \in 1..Len(queue) :
          StartedDelivery(e) =>
              \A j \in review_jobs, k \in review_jobs' :
                  (j.id = k.id /\ j.pr_id = PrIdOf(e)) => k.attempts = j.attempts + 1]_vars

\* the running delivery of e moves from one position of processReviewJob to another
StepOf(e, from, to) ==
    /\ e \in Running /\ inflight[e].pc = from
    /\ e \in DOMAIN inflight' /\ inflight'[e].pc = to

\* C6: no step lowers the attempts of a Job.
C6_AttemptsNeverDecrease ==
    [][\A j \in review_jobs, k \in review_jobs' :
          j.id = k.id => k.attempts >= j.attempts]_vars

\* a Job with a positive attempts value has been taken through a failed delivery
C6_Witness ==
    \E j \in review_jobs : j.attempts >= 1 /\ j.status = "failed"

LifecycleTransitions ==
    { <<"pending", "processing">>, <<"processing", "completed">>,
      <<"processing", "failed">>, <<"failed", "processing">> }

\* C8 as stated: every change of a Job's status is one of pending ->
\* processing, processing -> completed, processing -> failed, failed ->
\* processing.
C8_OnlyLifecycleTransitions ==
    [][\A j \in review_jobs, k \in review_jobs' :
          (j.id = k.id /\ k.status # j.status)
              => <<j.status, k.status>> \in LifecycleTransitions]_vars

\* C8 amended: every change of a Job's status by the worker is into
\* processing at the start of a delivery, into completed at the end of a
\* successful one, or into failed in the failure handler, from whatever status
\* the Job then has; the worker never moves a Job to pending.
C8_WorkerTransitions ==
    [][\A j \in review_jobs, k \in review_jobs' :
          (j.id = k.id /\ k.status # j.status)
              => \E e \in Running :
                    /\ PrIdOf(e) = j.pr_id
                    /\ \/ k.status = "processing" /\ StepOf(e, "processing", "fetch")
                       \/ k.status = "completed" /\ StepOf(e, "complete", "return")
                       \/ k.status = "failed" /\ StepOf(e, "catch", "throw")]_vars

\* a Job that was completed is back at processing
C8_Witness ==
    \E j \in review_jobs : j.status = "processing" /\ j.completed_at # NullTime

\* C9: the step that ends a delivery whose calls all succeeded leaves the Job
\* completed with completed_at set; the return marks the entry completed, and
\* a completed entry stays completed and is not delivered again.
C9_SuccessCompletesAndAcks ==
    [][\A e \in 1..Len(queue) :
          /\ StepOf(e, "complete", "return")
               => \A k \in review_jobs' :
                     k.pr_id = PrIdOf(e)
                         => k.status = "completed" /\ k.completed_at # NullTime
          /\ (e \in Running /\ inflight[e].pc = "return" /\ e \notin DOMAIN inflight')
               => queue'[e].state = "completed"
          /\ queue[e].state = "completed"
               => queue'[e].state = "completed" /\ e \notin DOMAIN inflight']_vars

\* the pending Job of the seed was processed and its entry acknowledged
C9_Witness ==
    \E e \in 1..Len(queue) :
        /\ queue[e].state = "completed" /\ queue[e].attemptsMade = 0
        /\ \E j \in review_jobs :
              j.id = 2 /\ j.pr_id = PrIdOf(e) /\ j.status = "completed"
                  /\ j.completed_at # NullTime

Authentic(r) == r.rawBody # Undefined /\ r.signature = Digest(r.rawBody, WebhookSecret)

\* the request that arrives in this step, if one does
Arriving == {i \in 1..Len(reqs') : i > Len(reqs)}

\* C11: a request whose signature is missing or does not verify is answered
\* 401 and has written no row and added no queue entry.
C11_UnauthenticatedGets401 ==
    \A i \in 1..Len(reqs) :
        ~Authentic(reqs[i])
            => /\ reqs[i].status = 401
               /\ reqs[i].repoId = 0 /\ reqs[i].prId = 0

\* C12: an authentic request that is not a pull_request event, or is a
\* pull_request event whose action is not opened, synchronize or reopened, is
\* answered 200 on arrival, leaves every table and the queue as they were, and
\* does nothing afterwards.
C12_OutOfScopeAcknowledged ==
    [][/\ \A i \in Arriving :
             (Authentic(reqs'[i])
                /\ ~(reqs'[i].event = "pull_request"
                       /\ reqs'[i].action \in {"opened", "synchronize", "reopened"}))
                 => /\ reqs'[i].status = 200 /\ reqs'[i].pc = "done"
                    /\ UNCHANGED <<dbVars, queue>>
       /\ \A i \in 1..Len(reqs) : reqs[i].pc = "done" => reqs'[i] = reqs[i]]_vars

\* an authentic 'closed' pull request event was acknowledged and nothing was stored
C12_Witness ==
    \E i \in 1..Len(reqs) :
        /\ Authentic(reqs[i]) /\ reqs[i].event = "pull_request"
        /\ reqs[i].action = "closed" /\ reqs[i].status = 200
        /\ repositories = {} /\ pull_requests = {} /\ review_jobs = {} /\ queue = <<>>

\* C13: an authentic request goes on to the persistence steps exactly when
\* its event kind is pull_request and its action is opened, synchronize or
\* reopened; the step that decides changes no table and not the queue.
C13_InScopeIffPullRequestAction ==
    [][\A i \in Arriving :
          Authentic(reqs'[i])
              => /\ reqs'[i].pc = "repo"
                    <=> (reqs'[i].event = "pull_request"
                           /\ (reqs'[i].action = "opened" \/ reqs'[i].action = "synchronize"
                                 \/ reqs'[i].action = "reopened"))
                 /\ reqs'[i].pc \in {"repo", "done"}
                 /\ UNCHANGED <<dbVars, queue>>]_vars

\* one authentic request went on to persistence, an authentic push event
\* carrying the action 'opened' did not
C13_Witness ==
    \E i, k \in 1..Len(reqs) :
        /\ Authentic(reqs[i]) /\ reqs[i].event = "pull_request"
        /\ reqs[i].action = "reopened" /\ reqs[i].repoId # 0
        /\ Authentic(reqs[k]) /\ reqs[k].event = "push" /\ reqs[k].action = "opened"
        /\ reqs[k].pc = "done" /\ reqs[k].status = 200 /\ reqs[k].repoId = 0

\* no earlier request and no seeded row is about the pull request of request i
NotSeenBefore(i) ==
    /\ reqs[i].gh # SeedGithubRepoId
    /\ \A k \in 1..(i - 1) : ~(reqs[k].gh = reqs[i].gh /\ reqs[k].num = reqs[i].num)

EntriesOfPr(prId) == {e \in 1..Len(queue) : queue[e].data.prId = prId}

\* C14: once the handler of an authentic 'opened' event for a pull request not
\* seen before is done, with the repository and pull request rows stored, the
\* response is 200, a pending Job exists for the pull request and the queue
\* holds exactly one entry for it.
C14_OpenedCreatesPendingJob ==
    \A i \in 1..Len(reqs) :
        (Authentic(reqs[i]) /\ reqs[i].event = "pull_request" /\ reqs[i].action = "opened"
           /\ NotSeenBefore(i) /\ reqs[i].pc = "done" /\ reqs[i].prId # 0)
            => /\ reqs[i].status = 200
               /\ \E j \in JobsOfPr(reqs[i].prId) : j.status = "pending"
               /\ Cardinality(EntriesOfPr(reqs[i].prId)) = 1

\* the request of this step that gets the given response, if one does
Answered(i, status) ==
    /\ i <= Len(reqs) => reqs[i].status # status
    /\ reqs'[i].status = status

C17_OutageAnswered500 ==
    [][\A i \in 1..Len(reqs) :
          /\ (reqs[i].pc \in {"repo", "pr"} /\ reqs'[i].pc = "done")
               => reqs'[i].status = 500
          /\ (reqs[i].pc = "job" /\ reqs'[i].pc = "done" /\ queue' = queue)
               => reqs'[i].status = 500
          /\ (reqs[i].pc # "done" /\ reqs'[i].status = 200)
               => (reqs[i].pc = "job" /\ Len(queue') = Len(queue) + 1)]_vars

\* the pull request upsert of an in-scope request failed after its repository
\* row was stored, and the request was answered 500
C17_Witness ==
    \E i \in 1..Len(reqs) :
        /\ Authentic(reqs[i]) /\ reqs[i].event = "pull_request"
        /\ reqs[i].action \in relevantActions
        /\ reqs[i].repoId # 0 /\ reqs[i].prId = 0 /\ reqs[i].status = 500

\* C18: no error met while deliveries are processed ends the worker's
\* process: it runs on, and every active entry has a running call that will
\* return or fail it.
C18_WorkerSurvivesErrors ==
    /\ proc = "running"
    /\ \A e \in 1..Len(queue) : queue[e].state = "active" => e \in Running

\* C19: a call with a raw payload returns true exactly when the signature is
\* "sha256=" followed by the hex HMAC of that payload under that secret, and
\* false otherwise; no call without a payload returns true; and of two calls
\* that differ in the payload only, or in the signature only, at most one
\* returns true.
C19_TrueExactlyOnDigest ==
    /\ \A i \in 1..Len(reqs) :
          LET c == reqs[i]
          IN /\ c.payload # Undefined
                  => /\ c.result = "true" <=> c.signature = Digest(c.payload, c.secret)
                     /\ c.result \in {"true", "false"}
             /\ c.payload = Undefined => c.result # "true"
    /\ \A i, k \in 1..Len(reqs) :
          (/\ reqs[i].secret = reqs[k].secret
           /\ \/ reqs[i].payload # reqs[k].payload /\ reqs[i].signature = reqs[k].signature
              \/ reqs[i].payload = reqs[k].payload /\ reqs[i].signature # reqs[k].signature)
              => ~(reqs[i].result = "true" /\ reqs[k].result = "true")

\* a signature was accepted, the same signature was refused for the edited
\* payload, and a signature one character short was refused
C19_Witness ==
    \E i, k \in 1..Len(reqs) :
        /\ reqs[i].result = "true"
        /\ reqs[k].result = "false"
        /\ reqs[k].secret = reqs[i].secret
        /\ \/ reqs[k].signature = reqs[i].signature /\ reqs[k].payload # reqs[i].payload
           \/ reqs[k].signature = Truncated(reqs[i].signature)
                 /\ reqs[k].payload = reqs[i].payload

\* C20: a call whose signature is absent, malformed or not the digest of the
\* payload returns false and does not throw.
C20_BadSignatureReturnsFalse ==
    \A i \in 1..Len(reqs) :
        (reqs[i].payload = Undefined
            \/ reqs[i].signature # Digest(reqs[i].payload, reqs[i].secret))
            => reqs[i].result = "false"

\* request i runs its pull_requests upsert in this step
StoresPullRequest(i) == reqs[i].pc = "pr" /\ reqs'[i].pc = "job"

\* C21: when the pull_requests upsert of a request meets the row of an
\* already known pull request, the row then carries the title, author and
\* status of that request's event, under the same repository and number.
C21_UpsertOverwritesMutableFields ==
    [][\A i \in 1..Len(reqs) :
          (StoresPullRequest(i) /\ PullRequestConflicts(reqs[i].repoId, reqs[i].num) # {})
              => \A p \in pull_requests' :
                    p.id = reqs'[i].prId
                        => /\ p.title = reqs[i].title
                           /\ p.author = reqs[i].author
                           /\ p.status = reqs[i].state
                           /\ p.repo_id = reqs[i].repoId /\ p.pr_number = reqs[i].num]_vars

\* C22 (first half): whatever the interleaving of the requests' statements, repositories
\* holds one row per github_repo_id and pull_requests one row per (repo_id,
\* pr_number), and every request that ran an upsert got back the id of the
\* row with its own key.
C22_OneRowPerNaturalKey ==
    /\ \A r1, r2 \in repositories : r1.github_repo_id = r2.github_repo_id => r1 = r2
    /\ \A p1, p2 \in pull_requests :
          (p1.repo_id = p2.repo_id /\ p1.pr_number = p2.pr_number) => p1 = p2
    /\ \A i \in 1..Len(reqs) :
          /\ reqs[i].repoId # 0
               => \E r \in repositories :
                     r.id = reqs[i].repoId /\ r.github_repo_id = reqs[i].gh
          /\ reqs[i].prId # 0
               => \E p \in pull_requests :
                     /\ p.id = reqs[i].prId
                     /\ p.repo_id = reqs[i].repoId /\ p.pr_number = reqs[i].num

\* C22 (second half): a repositories or pull_requests upsert that reached the
\* table (it took a value from the sequence) with a non-null key hands its
\* request on to the next statement; a conflicting row, old or written by a
\* concurrent request, never turns into an error response.
C22_UpsertRaceNotSurfaced ==
    /\ []C22_OneRowPerNaturalKey
    /\ [][\A i \in 1..Len(reqs) :
            (reqs[i].pc \in {"repo", "pr"} /\ reqs'[i] # reqs[i]
               /\ seqs' # seqs /\ reqs[i].gh # NullId)
                => reqs'[i].status # 500 /\ reqs'[i].pc # "done"]_vars

\* two requests for the same new pull request are in flight together, both
\* past their upserts and holding the same row
C22_Witness ==
    \E i, k \in 1..Len(reqs) :
        /\ i # k /\ reqs[i].gh = reqs[k].gh /\ reqs[i].num = reqs[k].num
        /\ reqs[i].gh # SeedGithubRepoId
        /\ reqs[i].pc = "job" /\ reqs[k].pc = "job"
        /\ reqs[i].prId = reqs[k].prId /\ reqs[i].repoId = reqs[k].repoId

\* C27: every authentic pull_request event with action opened or synchronize
\* is answered 200 once its handler is done.
C27_OpenedAndSynchronizeAnswered200 ==
    \A i \in 1..Len(reqs) :
        (Authentic(reqs[i]) /\ reqs[i].event = "pull_request"
           /\ reqs[i].action \in {"opened", "synchronize"} /\ reqs[i].pc = "done")
            => reqs[i].status = 200

\* C23: for the latest entry of a pull request, with no delivery for that pull
\* request running: if the entry is completed every Job of the pull request
\* reads completed, and if it is dead-lettered every Job reads failed.
C23_JobFollowsLatestAttempt ==
    \A e \in 1..Len(queue) :
        ((\A x \in Running : PrIdOf(x) # PrIdOf(e)) /\ NoLaterEntry(e))
            => /\ queue[e].state = "completed"
                    => \A j \in JobsOfPr(PrIdOf(e)) : j.status = "completed"
               /\ queue[e].state = "failed"
                    => \A j \in JobsOfPr(PrIdOf(e)) : j.status = "failed"

\* C24: when the process has gone down with a delivery cut off after its
\* UPDATE to processing, the only entry of that pull request, the entry is
\* still active in the queue and the Job reads processing.
C24_CutOffDeliveryReadsProcessing ==
    proc = "exited"
        => \A e \in Running :
              (inflight[e].pc \in {"fetch", "analyze", "store", "post", "complete", "return"}
                 /\ \A x \in 1..Len(queue) : x # e => PrIdOf(x) # PrIdOf(e))
                  => /\ queue[e].state = "active"
                     /\ \A j \in JobsOfPr(PrIdOf(e)) : j.status = "processing"

C26_QueueStepsLeaveJobsAlone ==
    [][/\ queue' # queue => review_jobs' = review_jobs
       /\ (review_jobs' # review_jobs /\ ~FreshDatabase)
            => \E e \in Running :
                  \/ StepOf(e, "processing", "fetch")
                  \/ StepOf(e, "complete", "return")
                  \/ StepOf(e, "catch", "throw")]_vars

\* retention has removed a finished entry and the Job of its pull request is
\* still there with the status the worker wrote
C26_Witness ==
    \E e \in 1..Len(queue) :
        /\ queue[e].state = "removed"
        /\ \E j \in JobsOfPr(PrIdOf(e)) : j.status \in {"completed", "failed"}

\* C28: every pull request row has its repository row, every Job and every
\* review its pull request row, and every review comment its review, also
\* after DELETE FROM repositories.
C28_ReferentialIntegrity ==
    /\ \A p \in pull_requests : \E r \in repositories : r.id = p.repo_id
    /\ \A j \in review_jobs : \E p \in pull_requests : p.id = j.pr_id
    /\ \A x \in BagToSet(reviews) : \E p \in pull_requests : p.id = x
    /\ \A c \in BagToSet(review_comments) : BagIn(c, reviews)

\* the seeded repository has been deleted while the queue held an entry for
\* one of its pull requests
C28_Witness ==
    /\ repositories = {} /\ seqs["repositories"] > 0
    /\ pull_requests = {} /\ review_jobs = {}
    /\ reviews = EmptyBag /\ review_comments = EmptyBag
    /\ \E e \in 1..Len(queue) : queue[e].state = "delayed"

\* the row tables of the record store
Tables == <<repositories, pull_requests, review_jobs, reviews, review_comments>>

\* C29: every Job row has one of the four statuses, and a statement that
\* tries to write another status ends in an error with every table unchanged.
C29_OnlyFourStatuses ==
    /\ [](\A j \in review_jobs : j.status \in JobStatuses)
    /\ [][(Len(reqs') > Len(reqs) /\ reqs'[Len(reqs')].status \notin JobStatuses)
            => /\ reqs'[Len(reqs')].result = "error"
               /\ Tables' = Tables]_vars

\* the INSERT of test-queries.js has been tried and was rejected
C29_Witness ==
    \E i \in 1..Len(reqs) : reqs[i].status = "invalid_status" /\ reqs[i].result = "error"

\* the order of the steps of processReviewJob
StepOrder == <<"processing", "fetch", "analyze", "store", "post", "complete", "return">>

\* C30: a delivery starts at the UPDATE to processing and moves one step at a
\* time through fetch, analyze, INSERT of the review, posting the comment and
\* the UPDATE to completed; a step that fails leads to the catch block and
\* from there only to the rethrow; a Job turns completed only in the step
\* that follows the posting of the comment.
C30_StepsInOrder ==
    [][/\ \A e \in DOMAIN inflight' \ Running : inflight'[e].pc = "processing"
       /\ \A e \in Running \cap DOMAIN inflight' :
             inflight'[e].pc # inflight[e].pc
                 => \/ \E k \in 1..(Len(StepOrder) - 1) :
                          inflight[e].pc = StepOrder[k] /\ inflight'[e].pc = StepOrder[k + 1]
                    \/ inflight[e].pc \in {StepOrder[k] : k \in 1..(Len(StepOrder) - 1)}
                          /\ inflight'[e].pc = "catch"
                    \/ inflight[e].pc = "catch" /\ inflight'[e].pc = "throw"
       /\ (\E j \in review_jobs, k \in review_jobs' :
              j.id = k.id /\ j.status # "completed" /\ k.status = "completed")
            => \E e \in Running : StepOf(e, "complete", "return")]_vars

\* a delivery has gone through all its steps and is about to return
C30_Witness ==
    \E e \in Running :
        /\ inflight[e].pc = "return"
        /\ BagIn(PrIdOf(e), reviews)
        /\ \A j \in JobsOfPr(PrIdOf(e)) : j.status = "completed"

\* the places of a delivery, in the order the code passes them
DeliveryOrder == StepOrder \o <<"catch", "throw">>

DeliveryRank(pc) == CHOOSE k \in 1..Len(DeliveryOrder) : DeliveryOrder[k] = pc

\* C31: a running delivery only moves forward, so it passes each of fetch,
\* analyze, INSERT of the review and posting at most once; a delivery of an
\* entry starts only by the queue handing out a waiting entry, and an entry
\* whose delivery failed is handed out again only after the queue has
\* rescheduled it.
C31_NoRetryInsideDelivery ==
    [][\A e \in 1..Len(queue) :
          /\ (e \in Running /\ e \in DOMAIN inflight' /\ inflight'[e].pc # inflight[e].pc)
               => DeliveryRank(inflight'[e].pc) > DeliveryRank(inflight[e].pc)
          /\ (e \notin Running /\ e \in DOMAIN inflight')
               => /\ queue[e].state = "waiting" /\ queue'[e].state = "active"
                  /\ inflight'[e].pc = "processing"
          /\ (e \in Running /\ inflight[e].pc = "throw" /\ e \notin DOMAIN inflight')
               => queue'[e].state \in {"delayed", "failed"}]_vars

\* an entry whose first delivery failed is in its second delivery, past the
\* fetch that the queue's retry made possible
C31_Witness ==
    \E e \in Running :
        queue[e].attemptsMade = 1 /\ inflight[e].pc \in {"analyze", "store", "post"}

\* C32: an entry whose k-th delivery failed, k below 3, becomes delayed with
\* 1000 ms to wait after the first failure and 2000 ms after the second; the
\* time left only goes down as time passes, and the entry is handed back to
\* the waiting set, from where it is delivered again, only when none is left.
C32_BackoffDoubles ==
    [][\A e \in 1..Len(queue) :
          /\ (queue[e].state # "delayed" /\ queue'[e].state = "delayed")
               => /\ queue'[e].attemptsMade = queue[e].attemptsMade + 1
                  /\ queue'[e].attemptsMade \in {1, 2}
                  /\ queue'[e].delay =
                        IF queue'[e].attemptsMade = 1 THEN BackoffDelay ELSE 2 * BackoffDelay
          /\ (queue[e].state = "delayed" /\ queue'[e].state = "delayed")
               => \/ queue'[e].delay = queue[e].delay
                  \/ queue'[e].delay = queue[e].delay - BackoffDelay
          /\ (queue[e].state = "delayed" /\ queue'[e].state # "delayed")
               => queue[e].delay = 0 /\ queue'[e].state = "waiting"
          /\ queue'[e].state = "active" /\ queue[e].state # "active"
               => queue[e].state = "waiting"]_vars

\* an entry is in its third delivery, after both delays
C32_Witness ==
    \E e \in Running : queue[e].state = "active" /\ queue[e].attemptsMade = 2

\* C34: a pending Job of a pull request for which the queue was given an
\* entry has an entry that is still waiting, delayed or active.
C34_PendingJobHasOwedEntry ==
    \A j \in review_jobs :
        (j.status = "pending" /\ EntriesOfPr(j.pr_id) # {})
            => \E e \in EntriesOfPr(j.pr_id) : Owed(e)

\* review rows of the seed for a pull request (seed.sql 26-32)
SeededReviews(prId) == IF prId = 1 THEN 1 ELSE 0

\* C35: when the only entry of a pull request is completed, exactly one
\* review row has been stored for it by its deliveries.
C35_OneReviewPerCompletedEntry ==
    \A e \in 1..Len(queue) :
        (queue[e].state = "completed" /\ EntriesOfPr(PrIdOf(e)) = {e})
            => CopiesIn(PrIdOf(e), reviews) - SeededReviews(PrIdOf(e)) = 1

\* C36: a Job has a completion time exactly when its status is completed.
C36_CompletedAtIffCompleted ==
    \A j \in review_jobs : (j.completed_at # NullTime) <=> (j.status = "completed")

\* C37: a delivery that has reached the catch block goes on to the rethrow
\* whether or not its UPDATE to failed went through, and leaves the worker
\* only with the queue counting a failed attempt (entry delayed or
\* dead-lettered, attemptsMade one higher); an entry becomes completed only
\* from a delivery that got to its return without passing the catch block.
C37_FailureAlwaysReachesQueue ==
    [][\A e \in Running :
          /\ inflight[e].pc \in {"catch", "throw"}
               => /\ e \in DOMAIN inflight' => inflight'[e].pc \in {"catch", "throw"}
                  /\ e \notin DOMAIN inflight'
                       => /\ queue'[e].state \in {"delayed", "failed"}
                          /\ queue'[e].attemptsMade = queue[e].attemptsMade + 1
          /\ (queue'[e].state = "completed" /\ queue[e].state # "completed")
               => inflight[e].pc = "return" /\ inflight[e].err = NullText]_vars

\* the queue has rescheduled an entry whose delivery failed while the Job
\* still reads processing: the UPDATE of the catch block did not go through
C37_Witness ==
    \E e \in 1..Len(queue) :
        /\ queue[e].state = "delayed" /\ queue[e].attemptsMade = 1
        /\ EntriesOfPr(PrIdOf(e)) = {e}
        /\ \E j \in JobsOfPr(PrIdOf(e)) : j.status = "processing"

\* the entry is completed or dead-lettered
Final(e) == e \in 1..Len(queue) /\ queue[e].state \in {"completed", "failed"}

\* C38: with a worker that keeps running, every entry that was added is
\* delivered at most 3 times and is eventually completed or dead-lettered
\* with every Job of its pull request reading completed or failed.
C38_EntryAndJobTerminate ==
    /\ [](\A e \in 1..Len(queue) : Deliveries(e) <= Attempts)
    /\ \A e \in 1..MaxTimedEnqueue :
          [](Len(queue) >= e
               => <>(/\ Final(e)
                     /\ \A j \in JobsOfPr(PrIdOf(e)) : j.status \in {"completed", "failed"}))

\* C39: every request whose handler has ended was answered, with status 200,
\* 401 or 500.
C39_EveryRequestAnswered ==
    \A i \in 1..Len(reqs) : reqs[i].pc = "done" => reqs[i].status \in {200, 401, 500}
====
